---------------------------- MODULE Spec2Model ----------------------------
(***************************************************************************)
(* A model of src/groq_robot.py: the /talk pipeline (get_llm_response,     *)
(* parse_response, text_to_speech, convert_to_esp32_wav, base64, jsonify)  *)
(* and /clear_session, run by concurrent request-handling threads over the *)
(* process-wide dictionary conversation_history.                           *)
(*                                                                         *)
(* Atomicity: one Python statement that reads or writes shared state is    *)
(* one step.  Every statement looks conversation_history[session_id] up    *)
(* again, so no list reference is held from one step to the next.          *)
(***************************************************************************)
EXTENDS Integers, Sequences, FiniteSets, TLC

(***************************************************************************)
(* Bounds of the model and constants of the program.                       *)
(***************************************************************************)
\* groq_robot.py:164-165: the transcript is cut to its last 20 entries.
MaxTurns == 20

\* Number of requests (talk or clear_session) the model lets arrive.
MaxRequests == 2

\* Length of the transcript that session "default" may already hold.
PreLen == 19

\* Largest number of lines of an LLM reply handed to parse_response alone.
MaxLines == 3

Threads == {"t1", "t2"}

Sessions == {"default", "s1"}

\* Non-empty values of the "text" field of a request.
Texts == {"hi"}

(***************************************************************************)
(* Sequences.                                                              *)
(***************************************************************************)
Min(a, b) == IF a < b THEN a ELSE b

\* s[-n:] of Python for n > 0.
LastN(s, n) == IF Len(s) <= n THEN s ELSE SubSeq(s, Len(s) - n + 1, Len(s))

IsSuffix(s, t) == Len(s) <= Len(t) /\ s = SubSeq(t, Len(t) - Len(s) + 1, Len(t))

Range(s) == {s[i] : i \in 1..Len(s)}

\* dict.get(key, default)
Get(d, k, default) == IF k \in DOMAIN d THEN d[k] ELSE default

(***************************************************************************)
(* Turns.  A Turn is the dictionary {"role", "content"}.  Two history      *)
(* fields say where it comes from: "by", the number of the request that    *)
(* appended it (0: already there), and "session", the id it was appended   *)
(* under.  The code never reads them.                                      *)
(***************************************************************************)
Turn(role, content, by, session) ==
    [role |-> role, content |-> content, by |-> by, session |-> session]

\* groq_robot.py:147: {"role": "system", "content": SYSTEM_PROMPT}
SystemMessage == Turn("system", "SYSTEM_PROMPT", 0, "")

\* A transcript of k Turns left by earlier conversations: user, assistant, ...
OldTranscript(k) ==
    [i \in 1..k |-> Turn(IF i % 2 = 1 THEN "user" ELSE "assistant",
                         <<"old", i>>, 0, "default")]

(***************************************************************************)
(* Strings are sequences of one-character strings.                         *)
(***************************************************************************)
LowerCase == <<"a","b","c","d","e","f","g","h","i","j","k","l","m",
               "n","o","p","q","r","s","t","u","v","w","x","y","z">>
UpperCase == <<"A","B","C","D","E","F","G","H","I","J","K","L","M",
               "N","O","P","Q","R","S","T","U","V","W","X","Y","Z">>

Whitespace == {" ", "\n", "\t"}

\* str.upper() and str.lower(), character by character
UpperChar(c) == IF \E i \in 1..26 : LowerCase[i] = c
                THEN UpperCase[CHOOSE i \in 1..26 : LowerCase[i] = c] ELSE c
LowerChar(c) == IF \E i \in 1..26 : UpperCase[i] = c
                THEN LowerCase[CHOOSE i \in 1..26 : UpperCase[i] = c] ELSE c
Upper(s) == [i \in 1..Len(s) |-> UpperChar(s[i])]
Lower(s) == [i \in 1..Len(s) |-> LowerChar(s[i])]

\* str.strip()
RECURSIVE LStrip(_)
LStrip(s) == IF s # <<>> /\ Head(s) \in Whitespace THEN LStrip(Tail(s)) ELSE s
RECURSIVE RStrip(_)
RStrip(s) == IF s # <<>> /\ s[Len(s)] \in Whitespace
             THEN RStrip(SubSeq(s, 1, Len(s) - 1)) ELSE s
Strip(s) == RStrip(LStrip(s))

\* str.startswith(prefix)
StartsWith(s, prefix) == Len(prefix) <= Len(s) /\ SubSeq(s, 1, Len(prefix)) = prefix

\* Index of the first occurrence of character c in s, 0 if there is none.
IndexOf(s, c) == IF \E i \in 1..Len(s) : s[i] = c
                 THEN CHOOSE i \in 1..Len(s) : s[i] = c /\ \A j \in 1..(i-1) : s[j] # c
                 ELSE 0

\* s.split("\n")
RECURSIVE SplitLines(_)
SplitLines(s) ==
    LET k == IndexOf(s, "\n") IN
    IF k = 0 THEN <<s>>
    ELSE <<SubSeq(s, 1, k - 1)>> \o SplitLines(SubSeq(s, k + 1, Len(s)))

\* line.split(":", 1)[1], for a line that holds a colon
AfterColon(line) == SubSeq(line, IndexOf(line, ":") + 1, Len(line))

\* " ".join(lines)
RECURSIVE JoinSpace(_)
JoinSpace(lines) ==
    IF lines = <<>> THEN <<>>
    ELSE IF Len(lines) = 1 THEN lines[1]
    ELSE lines[1] \o <<" ">> \o JoinSpace(Tail(lines))

MOTION_PREFIX == <<"M","O","T","I","O","N",":">>
FACE_PREFIX == <<"F","A","C","E",":">>
DefaultMotion == <<"i","n","i","t","i","a","l"," ","p","o","s","i","t","i","o","n">>
DefaultFace == <<"t","a","l","k","i","n","g">>

\* SYSTEM_PROMPT, lines 43-61: the motions the LLM is told to choose from.
MOTIONS ==
    { <<"h","i">>,
      <<"h","a","n","d"," ","w","a","v","e">>,
      <<"s","h","a","k","e"," ","h","a","n","d">>,
      <<"h","a","n","d","s"," ","u","p">>,
      <<"h","a","n","d","s"," ","d","o","w","n">>,
      <<"d","a","n","c","e">>,
      <<"j","u","m","p">>,
      <<"e","x","e","r","c","i","s","e">>,
      <<"f","o","r","w","a","r","d">>,
      <<"b","a","c","k","w","a","r","d">>,
      <<"t","u","r","n"," ","r","i","g","h","t">>,
      <<"t","u","r","n"," ","l","e","f","t">>,
      <<"s","a","y"," ","y","e","s">>,
      <<"s","a","y"," ","n","o">>,
      <<"s","a","y"," ","t","h","a","n","k"," ","y","o","u">>,
      <<"r","i","g","h","t"," ","b","e","n","d"," ","w","a","v","e">>,
      <<"l","e","f","t"," ","b","e","n","d"," ","w","a","v","e">>,
      <<"i","n","i","t","i","a","l"," ","p","o","s","i","t","i","o","n">> }

\* SYSTEM_PROMPT, lines 63-70: the faces the LLM is told to choose from.
FACES ==
    { <<"t","a","l","k","i","n","g">>,
      <<"h","a","p","p","y">>,
      <<"s","a","d">>,
      <<"a","n","g","r","y">>,
      <<"c","r","y","i","n","g">>,
      <<"b","l","i","n","k">>,
      <<"i","n","i","t","i","a","l">> }

\* The loop of parse_response over lines[i..], with the values found so far.
RECURSIVE ParseLines(_, _, _, _, _)
ParseLines(lines, i, motion, face, clean_lines) ==
    IF i > Len(lines)
    THEN [spoken_text |-> Strip(JoinSpace(clean_lines)), motion |-> motion, face |-> face]
    ELSE LET line == lines[i]
             upper_line == Upper(Strip(line))
         IN IF StartsWith(upper_line, MOTION_PREFIX)
            THEN ParseLines(lines, i + 1, Lower(Strip(AfterColon(line))), face, clean_lines)
            ELSE IF StartsWith(upper_line, FACE_PREFIX)
            THEN ParseLines(lines, i + 1, motion, Lower(Strip(AfterColon(line))), clean_lines)
            ELSE ParseLines(lines, i + 1, motion, face, Append(clean_lines, line))

\* parse_response as it would be if the first MOTION:/FACE: line won.
parse_response_first_wins(raw_text) ==
    LET lines == SplitLines(Strip(raw_text))
        reversed == [i \in 1..Len(lines) |-> lines[Len(lines) + 1 - i]]
        first == ParseLines(reversed, 1, DefaultMotion, DefaultFace, <<>>)
    IN [ParseLines(lines, 1, DefaultMotion, DefaultFace, <<>>)
           EXCEPT !.motion = first.motion, !.face = first.face]

parse_response(raw_text) ==
    ParseLines(SplitLines(Strip(raw_text)), 1, DefaultMotion, DefaultFace, <<>>)

\* Replies the LLM service may return.
Replies ==
    { <<"O","k","\n","M","O","T","I","O","N",":"," ","h","i","\n",
        "F","A","C","E",":"," ","H","a","p","p","y">> }

\* Lines an LLM reply may be made of: blank, plain text, label lines with
\* blanks around them and in any case, a label without a value, a value that
\* holds a colon, a label without its colon, a label that is not at the
\* start of its line.
ReplyLines ==
    << <<>>,
       <<"O","k">>,
       <<" ","M","O","T","I","O","N",":"," ","H","i"," ">>,
       <<"m","o","t","i","o","n",":">>,
       <<"F","A","C","E",":"," ","S","a","d">>,
       <<"f","a","c","e",":","a",":","b">>,
       <<"M","o","t","i","o","n">>,
       <<"x"," ","F","A","C","E",":"," ","y">> >>

\* "\n".join(lines)
RECURSIVE JoinLines(_)
JoinLines(lines) ==
    IF lines = <<>> THEN <<>>
    ELSE IF Len(lines) = 1 THEN lines[1]
    ELSE lines[1] \o <<"\n">> \o JoinLines(Tail(lines))

\* The replies of at most MaxLines such lines.
RawReplies ==
    { JoinLines([i \in 1..Len(f) |-> ReplyLines[f[i]]]) :
         f \in UNION { [1..n -> 1..Len(ReplyLines)] : n \in 0..MaxLines } }

(***************************************************************************)
(* Audio.  Bytes are numbers in 0..255.                                    *)
(***************************************************************************)
\* Audio the TTS service may deliver for a text (MP3).
Mp3s == { <<73, 68, 51, 4>> }

\* What ffmpeg writes for an input: the external converter is a black box
\* with a fixed output format that differs from its input.
FfmpegOutput(mp3_bytes) == <<82, 73>> \o mp3_bytes

\* base64.b64encode: the result is given as indices into the base64
\* alphabet, 64 standing for the padding character "=".
RECURSIVE b64encode(_)
b64encode(bs) ==
    IF Len(bs) = 0 THEN <<>>
    ELSE IF Len(bs) = 1
    THEN << bs[1] \div 4, (bs[1] % 4) * 16, 64, 64 >>
    ELSE IF Len(bs) = 2
    THEN << bs[1] \div 4, (bs[1] % 4) * 16 + bs[2] \div 16, (bs[2] % 16) * 4, 64 >>
    ELSE << bs[1] \div 4, (bs[1] % 4) * 16 + bs[2] \div 16,
            (bs[2] % 16) * 4 + bs[3] \div 64, bs[3] % 64 >>
         \o b64encode(SubSeq(bs, 4, Len(bs)))

(***************************************************************************)
(* Dictionaries (conversation_history, request bodies, the temporary       *)
(* directory) are functions on the set of their keys.                      *)
(***************************************************************************)
EmptyDict == [k \in {} |-> <<>>]

\* d[k] = v
Put(d, k, v) == [x \in DOMAIN d \cup {k} |-> IF x = k THEN v ELSE d[x]]

\* del d[k]
Del(d, k) == [x \in DOMAIN d \ {k} |-> d[x]]

\* Bodies of a /talk request once decoded: a dictionary that may lack keys.
TalkBodies ==
    {EmptyDict}
    \cup {[text |-> t] : t \in Texts \cup {""}}
    \cup {[session_id |-> s] : s \in Sessions}
    \cup {[text |-> t, session_id |-> s] : t \in Texts \cup {""}, s \in Sessions}

\* Bodies of a /clear_session request once decoded.
ClearBodies == {EmptyDict} \cup {[session_id |-> s] : s \in Sessions}

\* Names tempfile gives the files of request n.
Mp3Path(n) == [request |-> n, suffix |-> ".mp3"]
WavPath(n) == [request |-> n, suffix |-> ".wav"]

\* Outcomes of os.remove(path): the file is removed, or OSError is raised
\* (always when the file is not there).
RemoveOutcomes(fs, path) == IF path \in fs THEN {"removed", "oserror"}
                            ELSE {"oserror"}

(***************************************************************************)
(* State.                                                                  *)
(***************************************************************************)
VARIABLES
    conversation_history,  \* groq_robot.py:25, session id -> sequence of Turns
    files,                 \* the paths of the temporary files that exist
    pc,                    \* thread -> the statement it executes next
    local,                 \* thread -> the local variables of its handler
    response,              \* thread -> the response of its last request
    nreq,                  \* number of requests received so far
    inv,                   \* history: thread -> number of its current request
    trace,                 \* history: thread -> what its current request did
    appended               \* history: session id -> the Turns appended to it
                           \*   since it was last cleared, in order

vars == <<conversation_history, files, pc, local, response, nreq, inv, trace, appended>>

NoLocals == [route |-> "", session_id |-> "default", user_text |-> "", messages |-> <<>>,
             raw_reply |-> <<>>, spoken_text |-> <<>>, motion |-> <<>>,
             face |-> <<>>, audio_mp3 |-> <<>>, wav_bytes |-> <<>>,
             audio_wav |-> <<>>]

NoResponse == [pending |-> TRUE]

\* The store when the model starts: session "default" holds an earlier
\* conversation, every other session is as after groq_robot.py:25 (absent).
InitStores == {[s \in {"default"} |-> OldTranscript(PreLen)]}

Init ==
    /\ conversation_history \in InitStores
    /\ appended = [s \in Sessions |-> Get(conversation_history, s, <<>>)]
    /\ files = {}
    /\ pc = [p \in Threads |-> "idle"]
    /\ local = [p \in Threads |-> NoLocals]
    /\ response = [p \in Threads |-> NoResponse]
    /\ nreq = 0
    /\ inv = [p \in Threads |-> 0]
    /\ trace = [p \in Threads |-> <<>>]

sid(p) == local[p].session_id

Goto(p, label) == pc' = [pc EXCEPT ![p] = label]

Log(p, event) == trace' = [trace EXCEPT ![p] = Append(@, event)]

\* talk, lines 343-345: any exception ends the request with a failure response.
Fail(p, message) ==
    /\ Goto(p, "done")
    /\ response' = [response EXCEPT ![p] = [success |-> FALSE, error |-> message]]
    /\ local' = [local EXCEPT ![p] = NoLocals]

(***************************************************************************)
(* talk, lines 278-314: decode the request and validate it.                *)
(***************************************************************************)
\* talk_receive as it would be without the test of lines 311-312.
talk_receive_no_validation(p, data) ==
    /\ pc[p] \in {"idle", "done"}
    /\ nreq < MaxRequests
    /\ nreq' = nreq + 1
    /\ inv' = [inv EXCEPT ![p] = nreq + 1]
    /\ trace' = [trace EXCEPT ![p] = <<>>]
    /\ IF DOMAIN data = {}
       THEN Fail(p, "Could not parse request data")
       ELSE /\ local' = [local EXCEPT ![p] = [NoLocals EXCEPT
                             !.route = "talk",
                             !.user_text = Get(data, "text", ""),
                             !.session_id = Get(data, "session_id", "default")]]
            /\ Goto(p, "L139")
            /\ response' = [response EXCEPT ![p] = NoResponse]
    /\ UNCHANGED <<conversation_history, files, appended>>

talk_receive(p, data) ==
    /\ pc[p] \in {"idle", "done"}
    /\ nreq < MaxRequests
    /\ nreq' = nreq + 1
    /\ inv' = [inv EXCEPT ![p] = nreq + 1]
    /\ trace' = [trace EXCEPT ![p] = <<>>]
    /\ IF DOMAIN data = {}
       THEN Fail(p, "Could not parse request data")
       ELSE LET user_text == Get(data, "text", "")
                session_id == Get(data, "session_id", "default")
            IN IF user_text = ""
               THEN Fail(p, "No text provided")
               ELSE /\ local' = [local EXCEPT ![p] = [NoLocals EXCEPT
                                     !.route = "talk",
                                     !.user_text = user_text, !.session_id = session_id]]
                    /\ Goto(p, "L139")
                    /\ response' = [response EXCEPT ![p] = NoResponse]
    /\ UNCHANGED <<conversation_history, files, appended>>

(***************************************************************************)
(* talk_text, lines 352-365: the same pipeline behind another route.  The  *)
(* body is decoded with json.loads; an empty dictionary has no "text".     *)
(***************************************************************************)
talk_text_receive(p, data) ==
    /\ pc[p] \in {"idle", "done"}
    /\ nreq < MaxRequests
    /\ nreq' = nreq + 1
    /\ inv' = [inv EXCEPT ![p] = nreq + 1]
    /\ trace' = [trace EXCEPT ![p] = <<>>]
    /\ LET user_text == Get(data, "text", "")
           session_id == Get(data, "session_id", "default")
       IN IF user_text = ""
          THEN Fail(p, "No text provided")
          ELSE /\ local' = [local EXCEPT ![p] = [NoLocals EXCEPT
                                !.route = "talk_text",
                                !.user_text = user_text, !.session_id = session_id]]
               /\ Goto(p, "L139")
               /\ response' = [response EXCEPT ![p] = NoResponse]
    /\ UNCHANGED <<conversation_history, files, appended>>

(***************************************************************************)
(* get_llm_response, lines 138-167.                                        *)
(***************************************************************************)
\* get_llm_response_L139 as it would be if it waited for the session to be
\* in the store instead of creating it.
get_llm_response_L139_wait(p) ==
    /\ pc[p] = "L139"
    /\ sid(p) \in DOMAIN conversation_history
    /\ Goto(p, "L142")
    /\ UNCHANGED <<conversation_history, files, local, response, nreq, inv, trace, appended>>

\* 139: if session_id not in conversation_history
get_llm_response_L139(p) ==
    /\ pc[p] = "L139"
    /\ IF sid(p) \notin DOMAIN conversation_history
       THEN Goto(p, "L140") ELSE Goto(p, "L142")
    /\ UNCHANGED <<conversation_history, files, local, response, nreq, inv, trace, appended>>

\* 140: conversation_history[session_id] = []
get_llm_response_L140(p) ==
    /\ pc[p] = "L140"
    /\ conversation_history' = Put(conversation_history, sid(p), <<>>)
    /\ Goto(p, "L142")
    /\ UNCHANGED <<files, local, response, nreq, inv, trace, appended>>

\* conversation_history[session_id].append(turn)
AppendTurn(history, session_id, turn) ==
    Put(history, session_id, Append(history[session_id], turn))

\* 142-145: append the user Turn (KeyError when the session is not there)
get_llm_response_L142(p) ==
    /\ pc[p] = "L142"
    /\ IF sid(p) \notin DOMAIN conversation_history
       THEN /\ Fail(p, "KeyError")
            /\ UNCHANGED <<conversation_history, appended, trace>>
       ELSE LET turn == Turn("user", local[p].user_text, inv[p], sid(p))
            IN /\ conversation_history' = AppendTurn(conversation_history, sid(p), turn)
               /\ appended' = [appended EXCEPT ![sid(p)] = Append(@, turn)]
               /\ Log(p, "append_user")
               /\ Goto(p, "L147")
               /\ UNCHANGED <<local, response>>
    /\ UNCHANGED <<files, nreq, inv>>

\* 147-148: messages = [system prompt] + a copy of the transcript
get_llm_response_L147(p) ==
    /\ pc[p] = "L147"
    /\ IF sid(p) \notin DOMAIN conversation_history
       THEN Fail(p, "KeyError")
       ELSE /\ local' = [local EXCEPT ![p].messages =
                            <<SystemMessage>> \o conversation_history[sid(p)]]
            /\ Goto(p, "L150")
            /\ UNCHANGED response
    /\ UNCHANGED <<conversation_history, files, nreq, inv, trace, appended>>

\* get_llm_response_L150 as it would be if a failed call took the user Turn
\* back out of the transcript.
get_llm_response_L150_rollback(p) ==
    /\ pc[p] = "L150"
    /\ \/ /\ \E reply \in Replies :
                /\ local' = [local EXCEPT ![p].raw_reply = reply]
                /\ trace' = [trace EXCEPT ![p] = @ \o <<"llm", "llm_replied">>]
                /\ Goto(p, "L159")
                /\ UNCHANGED response
          /\ UNCHANGED conversation_history
       \/ /\ Log(p, "llm")
          /\ Fail(p, "LLM service error")
          /\ conversation_history' =
                IF sid(p) \in DOMAIN conversation_history
                   /\ conversation_history[sid(p)] # <<>>
                THEN Put(conversation_history, sid(p),
                         SubSeq(conversation_history[sid(p)], 1,
                                Len(conversation_history[sid(p)]) - 1))
                ELSE conversation_history
    /\ UNCHANGED <<files, nreq, inv, appended>>

\* 150-157: the LLM call with messages returns a reply, or raises
get_llm_response_L150(p) ==
    /\ pc[p] = "L150"
    /\ \/ \E reply \in Replies :
             /\ local' = [local EXCEPT ![p].raw_reply = reply]
             /\ trace' = [trace EXCEPT ![p] = @ \o <<"llm", "llm_replied">>]
             /\ Goto(p, "L159")
             /\ UNCHANGED response
       \/ /\ Log(p, "llm")
          /\ Fail(p, "LLM service error")
    /\ UNCHANGED <<conversation_history, files, nreq, inv, appended>>

\* 159-162: append the assistant Turn (KeyError when the session is not there)
get_llm_response_L159(p) ==
    /\ pc[p] = "L159"
    /\ IF sid(p) \notin DOMAIN conversation_history
       THEN /\ Fail(p, "KeyError")
            /\ UNCHANGED <<conversation_history, appended, trace>>
       ELSE LET turn == Turn("assistant", local[p].raw_reply, inv[p], sid(p))
            IN /\ conversation_history' = AppendTurn(conversation_history, sid(p), turn)
               /\ appended' = [appended EXCEPT ![sid(p)] = Append(@, turn)]
               /\ Log(p, "append_assistant")
               /\ Goto(p, "L164")
               /\ UNCHANGED <<local, response>>
    /\ UNCHANGED <<files, nreq, inv>>

\* 167: return raw_reply; the other locals of get_llm_response are gone
Return(p) ==
    /\ Goto(p, "L321")
    /\ local' = [local EXCEPT ![p].messages = <<>>]
    /\ UNCHANGED response

\* 164: if len(conversation_history[session_id]) > 20
get_llm_response_L164(p) ==
    /\ pc[p] = "L164"
    /\ IF sid(p) \notin DOMAIN conversation_history
       THEN Fail(p, "KeyError")
       ELSE IF Len(conversation_history[sid(p)]) > MaxTurns
            THEN Goto(p, "L165") /\ UNCHANGED <<local, response>>
            ELSE Return(p)
    /\ UNCHANGED <<conversation_history, files, nreq, inv, trace, appended>>

\* Truncate as it would be if it kept one Turn less than the cap.
Truncate_odd(history, session_id) ==
    Put(history, session_id, LastN(history[session_id], MaxTurns - 1))

\* conversation_history[session_id] = conversation_history[session_id][-20:]
Truncate(history, session_id) ==
    Put(history, session_id, LastN(history[session_id], MaxTurns))

\* 165: keep the last 20 Turns
get_llm_response_L165(p) ==
    /\ pc[p] = "L165"
    /\ IF sid(p) \notin DOMAIN conversation_history
       THEN /\ Fail(p, "KeyError")
            /\ UNCHANGED conversation_history
       ELSE /\ conversation_history' = Truncate(conversation_history, sid(p))
            /\ Return(p)
    /\ UNCHANGED <<files, nreq, inv, trace, appended>>

(***************************************************************************)
(* talk, lines 321-341, with text_to_speech and convert_to_esp32_wav.      *)
(***************************************************************************)
\* text_to_speech as it would be if the status of the request were looked at
\* only after the download.
text_to_speech_late_check(text) ==
    { [calls |-> <<"tts_request", "tts_fetch">>, error |-> "Murf error", content |-> <<>>],
      [calls |-> <<"tts_request">>, error |-> "Murf did not return an audio URL",
       content |-> <<>>],
      [calls |-> <<"tts_request", "tts_fetch">>, error |-> "Failed to download Murf audio",
       content |-> <<>>] }
    \cup { [calls |-> <<"tts_request", "tts_fetch">>, error |-> "", content |-> mp3]
           : mp3 \in Mp3s }

\* text_to_speech, lines 173-201, as the ways it may end: the request to
\* the TTS service fails on a status other than 200 (189) or on an answer
\* without "audioFile" (194), and then nothing is downloaded; the download of
\* the audio fails on a status other than 200 (198), or delivers the audio.
text_to_speech(text) ==
    { [calls |-> <<"tts_request">>, error |-> "Murf error", content |-> <<>>],
      [calls |-> <<"tts_request">>, error |-> "Murf did not return an audio URL",
       content |-> <<>>],
      [calls |-> <<"tts_request", "tts_fetch">>, error |-> "Failed to download Murf audio",
       content |-> <<>>] }
    \cup { [calls |-> <<"tts_request", "tts_fetch">>, error |-> "", content |-> mp3]
           : mp3 \in Mp3s }

\* talk_L321 as it would be if a failed TTS call were tried again.
talk_L321_retry(p) ==
    /\ pc[p] = "L321"
    /\ LET d == parse_response(local[p].raw_reply)
       IN \E tts \in text_to_speech(d.spoken_text) :
             /\ trace' = [trace EXCEPT ![p] = @ \o tts.calls]
             /\ IF tts.error # ""
                THEN UNCHANGED <<pc, local, response>>
                ELSE /\ local' = [local EXCEPT ![p].spoken_text = d.spoken_text,
                                     ![p].motion = d.motion, ![p].face = d.face,
                                     ![p].audio_mp3 = tts.content]
                     /\ Goto(p, "L328")
                     /\ UNCHANGED response
    /\ UNCHANGED <<conversation_history, files, nreq, inv, appended>>

\* 321-325 (366-368 in talk_text): spoken_text, motion, face =
\* parse_response(raw_llm_response); audio_mp3 = text_to_speech(spoken_text)
talk_L321(p) ==
    /\ pc[p] = "L321"
    /\ LET d == parse_response(local[p].raw_reply)
       IN \E tts \in text_to_speech(d.spoken_text) :
             /\ trace' = [trace EXCEPT ![p] = @ \o tts.calls]
             /\ IF tts.error # ""
                THEN Fail(p, tts.error)
                ELSE /\ local' = [local EXCEPT ![p].spoken_text = d.spoken_text,
                                     ![p].motion = d.motion, ![p].face = d.face,
                                     ![p].audio_mp3 = tts.content]
                     /\ Goto(p, "L328")
                     /\ UNCHANGED response
    /\ UNCHANGED <<conversation_history, files, nreq, inv, appended>>

\* A way convert_to_esp32_wav may end: the temporary files that exist then,
\* whether it raised, the bytes it returned, and whether the except block
\* ran (it prints "FFmpeg conversion error").
Ending(fs, raised, bytes, failed) ==
    [files |-> fs, raised |-> raised, bytes |-> bytes, failed |-> failed]

\* lines 236-239: except Exception: print; os.remove(mp3_path); return
\* mp3_bytes.  An error of this os.remove leaves the function.
ExceptBlock(fs, mp3_bytes, n) ==
    { IF outcome = "removed"
      THEN Ending(fs \ {Mp3Path(n)}, FALSE, mp3_bytes, TRUE)
      ELSE Ending(fs, TRUE, <<>>, TRUE) : outcome \in RemoveOutcomes(fs, Mp3Path(n)) }

\* lines 233-235: os.remove(mp3_path); os.remove(wav_path); return wav_bytes
RemoveBoth(fs, mp3_bytes, wav_bytes, n) ==
    UNION { IF first = "oserror" THEN ExceptBlock(fs, mp3_bytes, n)
            ELSE LET fs1 == fs \ {Mp3Path(n)}
                 IN UNION { IF second = "oserror" THEN ExceptBlock(fs1, mp3_bytes, n)
                            ELSE {Ending(fs1 \ {WavPath(n)}, FALSE, wav_bytes, FALSE)}
                            : second \in RemoveOutcomes(fs1, WavPath(n)) }
            : first \in RemoveOutcomes(fs, Mp3Path(n)) }

\* lines 229-235: the try block.  ffmpeg writes the output file, or is
\* missing, or exits with an error (with or without a partial output file);
\* reading the output file back may fail.
TryBlock(fs, mp3_bytes, n) ==
    LET written == fs \cup {WavPath(n)}
    IN RemoveBoth(written, mp3_bytes, FfmpegOutput(mp3_bytes), n)  \* all went well so far
       \cup ExceptBlock(written, mp3_bytes, n)   \* open/read raises, or the tool
                                                 \*   failed after writing a part
       \cup ExceptBlock(fs, mp3_bytes, n)        \* the tool is missing, or failed
                                                 \*   before writing anything

\* convert_to_esp32_wav, lines 207-239, for request n: every way it may end.
convert_to_esp32_wav(fs, mp3_bytes, n) ==
    TryBlock(fs \cup {Mp3Path(n)}, mp3_bytes, n)

\* talk_L328 as it would be if the handler kept user_text, spoken_text, motion
\* and face in variables shared by the threads: the response is built from
\* what the other thread left there.
talk_L328_shared(p) ==
    /\ pc[p] = "L328"
    /\ \E end \in convert_to_esp32_wav(files, local[p].audio_mp3, inv[p]) :
       LET other == CHOOSE q \in Threads : q # p IN
          /\ files' = end.files
          /\ trace' = [trace EXCEPT ![p] =
                          @ \o (IF end.failed THEN <<"ffmpeg", "conversion_error">>
                                ELSE <<"ffmpeg">>)]
          /\ IF end.raised
             THEN Fail(p, "OSError")
             ELSE /\ response' = [response EXCEPT ![p] =
                        IF local[p].route = "talk"
                        THEN [success |-> TRUE,
                              audio_base64 |-> b64encode(end.bytes),
                              transcript |-> local[other].user_text,
                              response |-> local[other].spoken_text,
                              motion |-> local[other].motion,
                              face |-> local[other].face]
                        ELSE [success |-> TRUE,
                              audio_base64 |-> b64encode(end.bytes),
                              motion |-> local[other].motion,
                              face |-> local[other].face,
                              spoken_text |-> local[other].spoken_text]]
                  /\ local' = [local EXCEPT ![p] = NoLocals]
                  /\ Goto(p, "done")
    /\ UNCHANGED <<conversation_history, nreq, inv, appended>>

\* 328-341 (369-378 in talk_text): audio_wav =
\* convert_to_esp32_wav(audio_mp3); base64-encode it and answer
talk_L328(p) ==
    /\ pc[p] = "L328"
    /\ \E end \in convert_to_esp32_wav(files, local[p].audio_mp3, inv[p]) :
          /\ files' = end.files
          /\ trace' = [trace EXCEPT ![p] =
                          @ \o (IF end.failed THEN <<"ffmpeg", "conversion_error">>
                                ELSE <<"ffmpeg">>)]
          /\ IF end.raised
             THEN Fail(p, "OSError")
             ELSE /\ response' = [response EXCEPT ![p] =
                        IF local[p].route = "talk"
                        THEN [success |-> TRUE,
                              audio_base64 |-> b64encode(end.bytes),
                              transcript |-> local[p].user_text,
                              response |-> local[p].spoken_text,
                              motion |-> local[p].motion,
                              face |-> local[p].face]
                        ELSE [success |-> TRUE,
                              audio_base64 |-> b64encode(end.bytes),
                              motion |-> local[p].motion,
                              face |-> local[p].face,
                              spoken_text |-> local[p].spoken_text]]
                  /\ local' = [local EXCEPT ![p] = NoLocals]
                  /\ Goto(p, "done")
    /\ UNCHANGED <<conversation_history, nreq, inv, appended>>

(***************************************************************************)
(* clear_session, lines 384-392.                                           *)
(***************************************************************************)
\* 386-389: decode the request
clear_session_receive(p, data) ==
    /\ pc[p] \in {"idle", "done"}
    /\ nreq < MaxRequests
    /\ nreq' = nreq + 1
    /\ inv' = [inv EXCEPT ![p] = nreq + 1]
    /\ trace' = [trace EXCEPT ![p] = <<>>]
    /\ local' = [local EXCEPT ![p] =
                    [NoLocals EXCEPT !.session_id = Get(data, "session_id", "default")]]
    /\ response' = [response EXCEPT ![p] = NoResponse]
    /\ Goto(p, "L390")
    /\ UNCHANGED <<conversation_history, files, appended>>

\* 392: return jsonify({"message": ...}), 200
Cleared(p) ==
    /\ response' = [response EXCEPT ![p] = [status |-> 200, cleared |-> sid(p)]]
    /\ local' = [local EXCEPT ![p] = NoLocals]
    /\ Goto(p, "done")

\* clear_session_L390 as it would be without the membership test.
clear_session_L390_no_test(p) ==
    /\ pc[p] = "L390"
    /\ Goto(p, "L391")
    /\ UNCHANGED <<conversation_history, files, local, response, nreq, inv, trace, appended>>

\* 390: if session_id in conversation_history
clear_session_L390(p) ==
    /\ pc[p] = "L390"
    /\ IF sid(p) \in DOMAIN conversation_history
       THEN Goto(p, "L391") /\ UNCHANGED <<local, response, trace>>
       ELSE Cleared(p) /\ Log(p, "not_in_store")
    /\ UNCHANGED <<conversation_history, files, nreq, inv, appended>>

\* clear_session_L391 as it would be if it emptied the whole dictionary.
clear_session_L391_clear_all(p) ==
    /\ pc[p] = "L391"
    /\ conversation_history' = EmptyDict
    /\ appended' = [s \in Sessions |-> <<>>]
    /\ Cleared(p)
    /\ UNCHANGED <<files, nreq, inv, trace>>

\* 391: del conversation_history[session_id] (KeyError when it is not there:
\* the handler catches nothing and the request ends with status 500)
clear_session_L391(p) ==
    /\ pc[p] = "L391"
    /\ IF sid(p) \in DOMAIN conversation_history
       THEN /\ conversation_history' = Del(conversation_history, sid(p))
            /\ appended' = [appended EXCEPT ![sid(p)] = <<>>]
            /\ Cleared(p)
       ELSE /\ response' = [response EXCEPT ![p] = [status |-> 500, cleared |-> sid(p)]]
            /\ local' = [local EXCEPT ![p] = NoLocals]
            /\ Goto(p, "done")
            /\ UNCHANGED <<conversation_history, appended>>
    /\ UNCHANGED <<files, nreq, inv, trace>>

(***************************************************************************)
(* The server: any thread takes its next step.                             *)
(***************************************************************************)
Step(p) ==
    \/ get_llm_response_L139(p)
    \/ get_llm_response_L140(p)
    \/ get_llm_response_L142(p)
    \/ get_llm_response_L147(p)
    \/ get_llm_response_L150(p)
    \/ get_llm_response_L159(p)
    \/ get_llm_response_L164(p)
    \/ get_llm_response_L165(p)
    \/ talk_L321(p)
    \/ talk_L328(p)
    \/ clear_session_L390(p)
    \/ clear_session_L391(p)

Receive(p) ==
    \/ \E data \in TalkBodies : talk_receive(p, data)
    \/ \E data \in ClearBodies : clear_session_receive(p, data)

\* A /talk_text request arrives.
ReceiveText(p) == \E data \in TalkBodies : talk_text_receive(p, data)

\* Concurrent /talk and /clear_session requests.  (/talk_text runs the steps
\* of /talk and differs in the keys of its response; it is part of the
\* server without overlap below.)
Next == \E p \in Threads : Receive(p) \/ Step(p)

Spec == Init /\ [][Next]_vars

\* No thread is inside a request.
Quiescent == \A p \in Threads : pc[p] \in {"idle", "done"}

\* The server with its three routes when requests do not overlap: a request
\* is received only when no other is in progress.
NextSeq ==
    \E p \in Threads : (Quiescent /\ (Receive(p) \/ ReceiveText(p))) \/ Step(p)

SpecSeq == Init /\ [][NextSeq]_vars

\* The concurrent server when every thread that is inside a request goes on
\* taking steps: a handler is straight-line code that takes no lock and
\* waits for nothing but its collaborators, which return or fail.
SpecFair == Spec /\ \A p \in Threads : WF_vars(Step(p))

\* The server without overlap, found after conversations whose requests all
\* succeeded: session "default" holds the Turns of 9 or of 10 answered
\* requests (one pair below the cap, or just at it).
InitPairs ==
    /\ conversation_history \in
          {[s \in {"default"} |-> OldTranscript(k)] : k \in {MaxTurns - 2, MaxTurns}}
    /\ appended = [s \in Sessions |-> Get(conversation_history, s, <<>>)]
    /\ files = {}
    /\ pc = [p \in Threads |-> "idle"]
    /\ local = [p \in Threads |-> NoLocals]
    /\ response = [p \in Threads |-> NoResponse]
    /\ nreq = 0
    /\ inv = [p \in Threads |-> 0]
    /\ trace = [p \in Threads |-> <<>>]

SpecPairs == InitPairs /\ [][NextSeq]_vars

(***************************************************************************)
(* parse_response on its own: the first /talk request to a fresh server    *)
(* has appended its two Turns and get_llm_response has returned one of     *)
(* RawReplies; the request goes on from line 321.                          *)
(***************************************************************************)
InitParse ==
    \E raw \in RawReplies :
       LET user == Turn("user", "hi", 1, "default")
           assistant == Turn("assistant", raw, 1, "default")
       IN /\ conversation_history = [s \in {"default"} |-> <<user, assistant>>]
          /\ appended = [s \in Sessions |->
                            IF s = "default" THEN <<user, assistant>> ELSE <<>>]
          /\ files = {}
          /\ pc = [p \in Threads |-> IF p = "t1" THEN "L321" ELSE "idle"]
          /\ local = [p \in Threads |->
                         IF p = "t1"
                         THEN [NoLocals EXCEPT !.route = "talk", !.user_text = "hi",
                                               !.raw_reply = raw]
                         ELSE NoLocals]
          /\ response = [p \in Threads |-> NoResponse]
          /\ nreq = 1
          /\ inv = [p \in Threads |-> IF p = "t1" THEN 1 ELSE 0]
          /\ trace = [p \in Threads |->
                         IF p = "t1"
                         THEN <<"append_user", "llm", "llm_replied", "append_assistant">>
                         ELSE <<>>]

NextParse == \E p \in Threads : talk_L321(p) \/ talk_L328(p)

SpecParse == InitParse /\ [][NextParse]_vars

(***************************************************************************)
(* Properties.                                                             *)
(***************************************************************************)
Count(s, e) == Cardinality({i \in 1..Len(s) : s[i] = e})

\* Thread p has answered a /talk or /talk_text request.
TalkDone(p) == pc[p] = "done" /\ "success" \in DOMAIN response[p]

\* Thread p has answered a /talk or /talk_text request with success = false.
TalkFailed(p) == TalkDone(p) /\ ~response[p].success

\* Thread p has answered a /talk request that passed the validation of
\* lines 304-312.
PipelineDone(p) ==
    /\ TalkDone(p)
    /\ response[p].success \/ response[p].error \notin
          {"Could not parse request data", "No text provided"}

\* Thread p has answered a /clear_session request.
ClearDone(p) == pc[p] = "done" /\ "status" \in DOMAIN response[p]

\* The entry of session b in the store: whether it is there, and its Turns.
Entry(history, b) == IF b \in DOMAIN history THEN <<TRUE, history[b]>>
                     ELSE <<FALSE, <<>>>>

\* C1: in every reachable state every session's transcript holds at most 20
\* Turns.
C1_TranscriptAtMostCap ==
    \A s \in DOMAIN conversation_history : Len(conversation_history[s]) <= MaxTurns

\* C2: when requests do not overlap, the transcript of a session that was
\* not cleared is exactly the last min(n, 20) of the n Turns appended to it,
\* in their order (stated for the states where no request is in progress).
C2_LastMinOfAppended ==
    Quiescent =>
       \A s \in DOMAIN conversation_history :
          conversation_history[s] =
             LastN(appended[s], Min(Len(appended[s]), MaxTurns))

\* C3, for thread p: the step in which its LLM call fails answers
\* success = false with an error, leaves the store as it is, with the user
\* Turn of the request the last Turn of its session and no assistant Turn of
\* the request anywhere; the step in which its TTS call fails after the LLM
\* replied answers success = false and leaves the store as it is, with the
\* user Turn and the assistant Turn of the request the last two Turns.
C3_Step(p) ==
    LET s == sid(p)
        h == conversation_history'
        user == Turn("user", local[p].user_text, inv[p], s)
        assistant == Turn("assistant", local[p].raw_reply, inv[p], s)
    IN /\ (pc[p] = "L150" /\ pc'[p] = "done") =>
             /\ response'[p] = [success |-> FALSE, error |-> "LLM service error"]
             /\ h = conversation_history
             /\ s \in DOMAIN h /\ Len(h[s]) >= 1 /\ h[s][Len(h[s])] = user
             /\ \A b \in DOMAIN h : \A i \in 1..Len(h[b]) :
                   ~(h[b][i].by = inv[p] /\ h[b][i].role = "assistant")
       /\ (pc[p] = "L321" /\ pc'[p] = "done") =>
             /\ "success" \in DOMAIN response'[p]
             /\ ~response'[p].success /\ response'[p].error # ""
             /\ h = conversation_history
             /\ s \in DOMAIN h /\ Len(h[s]) >= 2
             /\ h[s][Len(h[s]) - 1] = user /\ h[s][Len(h[s])] = assistant

\* C3: session mutations are never rolled back on failure (requests that do
\* not overlap).
C3_NoRollback == [][\A p \in Threads : C3_Step(p)]_vars

\* C3 witness: one request ended with a failed LLM call after appending its
\* user Turn, another with a failed TTS request after appending both Turns.
C3_Witness ==
    \E p, q \in Threads :
       /\ TalkFailed(p) /\ response[p].error = "LLM service error"
       /\ trace[p] = <<"append_user", "llm">>
       /\ TalkFailed(q) /\ response[q].error = "Murf error"
       /\ trace[q] = <<"append_user", "llm", "llm_replied", "append_assistant",
                       "tts_request">>

\* C4: a failed request made no call of a stage after the one that failed
\* (LLM, TTS request, audio download, conversion tool, in this order), and
\* its response carries an error message and no audio.
C4_ErrorAbortsLaterStages ==
    \A p \in Threads :
       TalkFailed(p) =>
          LET e == response[p].error
              calls == Range(trace[p])
          IN /\ e # ""
             /\ "audio_base64" \notin DOMAIN response[p]
             /\ "llm_replied" \notin calls =>
                   calls \cap {"tts_request", "tts_fetch", "ffmpeg"} = {}
             /\ e = "LLM service error" =>
                   calls \cap {"tts_request", "tts_fetch", "ffmpeg"} = {}
             /\ e \in {"Murf error", "Murf did not return an audio URL"} =>
                   calls \cap {"tts_fetch", "ffmpeg"} = {}
             /\ e = "Failed to download Murf audio" => "ffmpeg" \notin calls

\* C4 witness: a request whose TTS request failed after the LLM replied.
C4_Witness ==
    \E p \in Threads :
       /\ TalkFailed(p) /\ response[p].error = "Murf error"
       /\ "llm_replied" \in Range(trace[p]) /\ "tts_request" \in Range(trace[p])

\* C5: whenever the conversion fails, the request still ends with
\* success = true and the base64 of the original MP3 bytes.
C5_FallbackNeverRaises ==
    \A p \in Threads :
       (pc[p] = "done" /\ "conversion_error" \in Range(trace[p])) =>
          /\ TalkDone(p) /\ response[p].success
          /\ \E mp3 \in Mp3s : response[p].audio_base64 = b64encode(mp3)

\* C6: once the transcode of a request has returned, neither its input file
\* nor its output file exists (stated for the requests that ended with
\* success = true, where transcode returned and every os.remove it reached
\* in the except block succeeded).
C6_NoTempFilesLeft ==
    \A p \in Threads :
       (TalkDone(p) /\ response[p].success) =>
          /\ Mp3Path(inv[p]) \notin files
          /\ WavPath(inv[p]) \notin files

\* C7: every Turn stored under a session id, and every Turn of the message
\* list a request is about to send to the LLM, was recorded under that id.
C7_OwnTurns ==
    /\ \A s \in DOMAIN conversation_history :
          \A i \in 1..Len(conversation_history[s]) :
             conversation_history[s][i].session = s
    /\ \A p \in Threads :
          pc[p] = "L150" =>
             /\ local[p].messages[1] = SystemMessage
             /\ \A i \in 2..Len(local[p].messages) :
                   local[p].messages[i].session = sid(p)

\* C7: a step changes the entry of session b in the store (its presence or
\* its Turns) only if it is a step of a request for b.
C7_Frame ==
    \A b \in Sessions :
       Entry(conversation_history', b) # Entry(conversation_history, b) =>
          \E p \in Threads :
             pc'[p] # pc[p] /\ pc[p] \notin {"idle", "done"} /\ sid(p) = b

\* C7: session isolation under any interleaving.
C7_SessionIsolation == [][C7_Frame /\ C7_OwnTurns /\ C7_OwnTurns']_vars

\* C7 witness: a request for "s1" is about to send its messages while
\* "default" holds Turns, and another thread is inside a request for
\* "default".
C7_Witness ==
    \E p, q \in Threads :
       /\ pc[p] = "L150" /\ sid(p) = "s1" /\ Len(local[p].messages) >= 2
       /\ pc[q] \in {"L147", "L150", "L159", "L164", "L165", "L391"}
       /\ sid(q) = "default"
       /\ "default" \in DOMAIN conversation_history
       /\ conversation_history["default"] # <<>>

\* C8: no appended Turn is lost: the transcript of a session is a suffix of
\* the Turns appended to it since it was last cleared, and Turns are missing
\* at its front only once the 20-Turn cap was reached.
C8_NoLostAppend ==
    \A s \in Sessions :
       IF s \in DOMAIN conversation_history
       THEN /\ IsSuffix(conversation_history[s], appended[s])
            /\ Len(conversation_history[s]) < Len(appended[s]) =>
                  Len(conversation_history[s]) >= MaxTurns
       ELSE appended[s] = <<>>

\* C9: a request that passed validation appended exactly one user Turn,
\* before its LLM call, and exactly one assistant Turn if and only if its
\* LLM call succeeded.
C9_OneTurnPerRole ==
    \A p \in Threads :
       PipelineDone(p) =>
          /\ Count(trace[p], "append_user") = 1
          /\ trace[p][1] = "append_user"
          /\ Count(trace[p], "append_assistant") <= 1
          /\ Count(trace[p], "append_assistant") = 1 <=>
                "llm_replied" \in Range(trace[p])

\* C10, for thread p: a clear of an id that is not in the store answers 200
\* and leaves the store as it is; and a clear that answered 200 leaves its id
\* out of the store and every other entry as it was, so that a second clear
\* of the id is a clear of an absent id.
C10_Step(p) ==
    /\ (pc[p] = "L390" /\ pc'[p] # "L390"
        /\ sid(p) \notin DOMAIN conversation_history) =>
          /\ pc'[p] = "done"
          /\ response'[p] = [status |-> 200, cleared |-> sid(p)]
          /\ conversation_history' = conversation_history
    /\ (pc[p] \in {"L390", "L391"} /\ pc'[p] = "done"
        /\ response'[p].status = 200) =>
          /\ sid(p) \notin DOMAIN conversation_history'
          /\ \A b \in Sessions \ {sid(p)} :
                Entry(conversation_history', b) = Entry(conversation_history, b)

\* C10: clearing an absent session id is a no-op without error, and clear is
\* idempotent.
C10_ClearAbsentIsNoop == [][\A p \in Threads : C10_Step(p)]_vars

\* C10 witness: a clear of an id that was not in the store has answered 200.
C10_Witness ==
    \E p \in Threads :
       /\ ClearDone(p) /\ response[p].status = 200
       /\ trace[p] = <<"not_in_store">>
\* C11, for thread p: a clear that answers 200 leaves its id out of the
\* store; and a request that was in flight when its session was cleared
\* appends its assistant Turn to a fresh history: its step at line 159 with
\* the session gone does not fail and leaves the session holding that Turn
\* only.
C11_Step(p) ==
    /\ (pc[p] = "L391" /\ pc'[p] = "done" /\ response'[p].status = 200) =>
          sid(p) \notin DOMAIN conversation_history'
    /\ (pc[p] = "L159" /\ pc'[p] # "L159"
        /\ sid(p) \notin DOMAIN conversation_history) =>
          /\ pc'[p] # "done"
          /\ sid(p) \in DOMAIN conversation_history'
          /\ conversation_history'[sid(p)] =
                <<Turn("assistant", local[p].raw_reply, inv[p], sid(p))>>

\* C11: after a clear of an existing session the id is absent and the next
\* append to it starts from an empty history, also for a request in flight.
C11_ClearStartsFresh == [][\A p \in Threads : C11_Step(p)]_vars

\* C12: what the claim says parse returns, stated on the lines of the raw
\* reply as it is (not trimmed first).
C12_IsMotion(line) == StartsWith(Lower(Strip(line)), Lower(MOTION_PREFIX))

C12_IsFace(line) == StartsWith(Lower(Strip(line)), Lower(FACE_PREFIX))

C12_IsSpoken(line) == ~C12_IsMotion(line) /\ ~C12_IsFace(line)

C12_Last(I) == CHOOSE i \in I : \A j \in I : j <= i

C12_Motion(raw) ==
    LET lines == SplitLines(raw)
        I == {i \in 1..Len(lines) : C12_IsMotion(lines[i])}
    IN IF I = {} THEN DefaultMotion
       ELSE Lower(Strip(AfterColon(lines[C12_Last(I)])))

C12_Face(raw) ==
    LET lines == SplitLines(raw)
        I == {i \in 1..Len(lines) : C12_IsFace(lines[i])}
    IN IF I = {} THEN DefaultFace
       ELSE Lower(Strip(AfterColon(lines[C12_Last(I)])))

C12_Spoken(raw) == Strip(JoinSpace(SelectSeq(SplitLines(raw), C12_IsSpoken)))

\* C12: for every raw reply, parse_response returns the value of the last
\* MOTION: line (or "initial position"), the value of the last FACE: line (or
\* "talking"), and the other lines joined by single spaces and trimmed; the
\* response of the request carries these values.
C12_ParseLastWins ==
    \A p \in Threads :
       /\ pc[p] = "L328" =>
             /\ local[p].motion = C12_Motion(local[p].raw_reply)
             /\ local[p].face = C12_Face(local[p].raw_reply)
             /\ local[p].spoken_text = C12_Spoken(local[p].raw_reply)
       /\ (TalkDone(p) /\ response[p].success) =>
             LET raw == conversation_history["default"][2].content
             IN /\ response[p].motion = C12_Motion(raw)
                /\ response[p].face = C12_Face(raw)
                /\ response[p].response = C12_Spoken(raw)

\* C12 witness: the reply of the lines "motion:", "Ok", " MOTION: Hi " was
\* parsed: the last MOTION: line won, lower-cased and trimmed, the face kept
\* its default.
C12_Witness ==
    \E p \in Threads :
       /\ pc[p] = "L328"
       /\ local[p].raw_reply =
             JoinLines(<<ReplyLines[4], ReplyLines[2], ReplyLines[3]>>)
       /\ local[p].motion = <<"h","i">>
       /\ local[p].face = DefaultFace
       /\ local[p].spoken_text = <<"O","k">>

\* C13: the motion of every Directive is one of the 18 values of the MOTION
\* vocabulary and its face one of the 7 values of the FACE vocabulary, in
\* the result of parse_response and in the response of the request.
C13_InVocabulary ==
    \A p \in Threads :
       /\ pc[p] = "L328" =>
             local[p].motion \in MOTIONS /\ local[p].face \in FACES
       /\ (TalkDone(p) /\ response[p].success) =>
             response[p].motion \in MOTIONS /\ response[p].face \in FACES

\* C14, for thread p: it gives one response per request, when the request
\* ends and not before; no step of another thread touches its locals or its
\* response; its text and session id stay what the request carried; what it
\* parses is the reply its own LLM call returned, what it synthesizes is the
\* spoken text of that parse, and its success response is built from these:
\* transcript = its text, response/motion/face = its parse, audio_base64 =
\* base64 of what convert_to_esp32_wav returned for its own audio.
C14_Step(p) ==
    LET in_flight == pc[p] \notin {"idle", "done"}
        d == parse_response(local[p].raw_reply)
    IN /\ in_flight => response[p] = NoResponse
       /\ (in_flight /\ pc'[p] = "done") => response'[p] # NoResponse
       /\ (pc[p] = "done" /\ inv'[p] = inv[p]) =>
             pc'[p] = "done" /\ response'[p] = response[p]
       /\ (pc'[p] = pc[p] /\ inv'[p] = inv[p]) =>
             local'[p] = local[p] /\ response'[p] = response[p]
       /\ (in_flight /\ pc'[p] # "done") =>
             /\ local'[p].user_text = local[p].user_text
             /\ local'[p].session_id = local[p].session_id
             /\ pc[p] # "L150" => local'[p].raw_reply = local[p].raw_reply
       /\ (pc[p] = "L150" /\ pc'[p] = "L159") => local'[p].raw_reply \in Replies
       /\ (pc[p] = "L321" /\ pc'[p] = "L328") =>
             /\ local'[p].spoken_text = d.spoken_text
             /\ local'[p].motion = d.motion
             /\ local'[p].face = d.face
             /\ \E tts \in text_to_speech(d.spoken_text) :
                   tts.error = "" /\ local'[p].audio_mp3 = tts.content
       /\ (pc[p] = "L328" /\ pc'[p] = "done" /\ response'[p].success) =>
             /\ response'[p].transcript = local[p].user_text
             /\ response'[p].response = d.spoken_text
             /\ response'[p].motion = d.motion
             /\ response'[p].face = d.face
             /\ \E end \in convert_to_esp32_wav(files, local[p].audio_mp3, inv[p]) :
                   ~end.raised /\ response'[p].audio_base64 = b64encode(end.bytes)

\* C14: each invocation produces exactly one response, and a success
\* response is built only from the invocation's own data, under any
\* interleaving.
C14_OwnData == [][\A p \in Threads : C14_Step(p)]_vars

\* C14 witness: a request that started while an earlier one was in flight
\* has answered with success, the earlier one still being in flight.
C14_Witness ==
    \E p, q \in Threads :
       /\ TalkDone(p) /\ response[p].success /\ response[p].transcript = "hi"
       /\ pc[q] \in {"L159", "L164", "L165", "L321", "L328"}
       /\ inv[q] < inv[p]

\* C15: the message list handed to the LLM is the system instruction block
\* followed by the transcript of the session after the user append, in
\* order; it holds at most 20 transcript Turns and ends with the user Turn
\* of this invocation (requests that do not overlap).
C15_BoundedMessages ==
    \A p \in Threads :
       pc[p] = "L150" =>
          LET messages == local[p].messages
          IN /\ Len(messages) >= 2
             /\ messages[1] = SystemMessage
             /\ Tail(messages) = conversation_history[sid(p)]
             /\ messages[Len(messages)] =
                   Turn("user", local[p].user_text, inv[p], sid(p))
             /\ Len(messages) - 1 <= MaxTurns

\* Error messages of the collaborators: the LLM call, the TTS request and
\* the audio download.
CollaboratorErrors ==
    {"LLM service error", "Murf error", "Murf did not return an audio URL",
     "Failed to download Murf audio"}

\* C16: a request that passed validation ends with success = false only if
\* its LLM call or one of its two TTS steps reported an error, under any
\* interleaving with other requests and with clear-session requests (stated
\* for the requests whose conversion did not fail).
C16_FailsOnlyOnCollaboratorError ==
    \A p \in Threads :
       (PipelineDone(p) /\ "conversion_error" \notin Range(trace[p])) =>
          \/ response[p].success
          \/ response[p].error \in CollaboratorErrors

\* The stages of a request in the order of lines 142-328, as the events of
\* its trace; the last one is the failure of the conversion, if it fails.
Stages ==
    <<"append_user", "llm", "llm_replied", "append_assistant",
      "tts_request", "tts_fetch", "ffmpeg", "conversion_error">>

IsPrefix(s, t) == Len(s) <= Len(t) /\ s = SubSeq(t, 1, Len(s))

\* C17: each invocation is one linear traversal of the stages: where a
\* request stands determines the stages it has been through, each once and
\* in order; a request that ended has been through a prefix of the stages,
\* with every collaborator called at most once, through all of them if it
\* succeeded; and it carries audio if and only if it succeeded.
C17_LinearTraversal ==
    \A p \in Threads :
       /\ pc[p] \in {"L139", "L140", "L142"} => trace[p] = <<>>
       /\ pc[p] \in {"L147", "L150"} => trace[p] = SubSeq(Stages, 1, 1)
       /\ pc[p] = "L159" => trace[p] = SubSeq(Stages, 1, 3)
       /\ pc[p] \in {"L164", "L165", "L321"} => trace[p] = SubSeq(Stages, 1, 4)
       /\ pc[p] = "L328" => trace[p] = SubSeq(Stages, 1, 6)
       /\ TalkDone(p) =>
             /\ IsPrefix(trace[p], Stages)
             /\ \A e \in {"llm", "tts_request", "tts_fetch", "ffmpeg"} :
                   Count(trace[p], e) <= 1
             /\ response[p].success => Len(trace[p]) >= 7
             /\ response[p].success <=> "audio_base64" \in DOMAIN response[p]
             /\ response[p].success <=> "error" \notin DOMAIN response[p]

\* C17 witness: a request went through every stage and succeeded with the
\* converted audio.
C17_Witness ==
    \E p \in Threads :
       /\ TalkDone(p) /\ response[p].success
       /\ trace[p] = SubSeq(Stages, 1, 7)

\* C18: under fair scheduling every request that has started ends, with a
\* response; no other request and no clear keeps it from ending.
C18_EveryRequestEnds ==
    \A p \in Threads :
       (pc[p] \notin {"idle", "done"}) ~> (pc[p] = "done" /\ response[p] # NoResponse)

\* C18 witness: a /talk request whose session was cleared under it has
\* ended (with a failure), and so has the clear.
C18_Witness ==
    \E p, q \in Threads :
       /\ TalkDone(p) /\ ~response[p].success /\ response[p].error = "KeyError"
       /\ ClearDone(q) /\ response[q].status = 200

\* The statements of the pipeline, from get_llm_response to the response.
PipelineLabels == {"L139", "L140", "L142", "L147", "L150", "L159", "L164", "L165",
                   "L321", "L328"}

\* C19, for thread p: the step in which it receives a /talk or /talk_text
\* request either enters the pipeline, with a text that is not empty, or
\* answers success = false with an error message, and then leaves the store
\* as it is and has called neither the LLM nor the TTS service; no request
\* is inside the pipeline with an empty text.
C19_Step(p) ==
    /\ (inv'[p] # inv[p] /\ pc'[p] \in PipelineLabels) =>
          local'[p].user_text # ""
    /\ (inv'[p] # inv[p] /\ pc'[p] = "done") =>
          /\ response'[p].success = FALSE
          /\ response'[p].error \in {"Could not parse request data", "No text provided"}
          /\ conversation_history' = conversation_history
          /\ appended' = appended
          /\ trace'[p] = <<>>
    /\ pc[p] \in PipelineLabels => local[p].user_text # ""

\* C19: a request whose text is absent or empty is refused without entering
\* the pipeline.
C19_NoTextNoPipeline == [][\A p \in Threads : C19_Step(p)]_vars

\* C19 witness: a request without text was refused; the store is as the
\* server found it and session "s1" was not created.
C19_Witness ==
    \E p \in Threads :
       /\ TalkFailed(p) /\ response[p].error = "No text provided"
       /\ trace[p] = <<>>
       /\ inv[p] = 1
       /\ conversation_history = [s \in {"default"} |-> OldTranscript(PreLen)]

\* A sequence of Turns of even length: user, assistant, user, assistant, ...
C20_Alternates(t) ==
    /\ Len(t) % 2 = 0
    /\ \A i \in 1..Len(t) :
          t[i].role = IF i % 2 = 1 THEN "user" ELSE "assistant"

\* C20: when requests do not overlap, for a session whose LLM calls all
\* succeeded (the Turns appended to it are user/assistant pairs), at a state
\* where no request is in progress the transcript has even length, holds at
\* most 20 Turns, alternates user, assistant beginning with a user Turn, and
\* ends with the last Turn appended, the assistant Turn of the latest request.
C20_PairsPreserved ==
    Quiescent =>
       \A s \in DOMAIN conversation_history :
          C20_Alternates(appended[s]) =>
             /\ C20_Alternates(conversation_history[s])
             /\ Len(conversation_history[s]) <= MaxTurns
             /\ conversation_history[s] # <<>>
             /\ conversation_history[s][Len(conversation_history[s])] =
                   appended[s][Len(appended[s])]

\* C20 witness: a request on the full session was answered and the transcript
\* was cut: 22 Turns were appended, the session holds the last 20, the last
\* of them the assistant Turn of that request.
C20_Witness ==
    /\ Quiescent
    /\ "default" \in DOMAIN conversation_history
    /\ Len(appended["default"]) = MaxTurns + 2
    /\ C20_Alternates(appended["default"])
    /\ Len(conversation_history["default"]) = MaxTurns
    /\ conversation_history["default"][MaxTurns].by >= 1
    /\ conversation_history["default"][1].role = "user"

============================================================================
